---- MODULE Spec2Model ----
(***************************************************************************)
(* Account reconciliation of the Kion Terraform provider                   *)
(* (kion/resource_account.go): Read, Update and Delete of an account       *)
(* resource that is either a cached account or a project account, the      *)
(* location resolution they share, and the custom diff hook that plans the *)
(* computed location.                                                      *)
(*                                                                         *)
(* Strings the code parses, tests for a prefix or rewrites (resource IDs,  *)
(* start datecodes) are sequences of one-character strings; strings the    *)
(* code only compares or passes on are TLA+ strings.                       *)
(***************************************************************************)
EXTENDS Integers, Sequences, FiniteSets, TLC

(* ---------------------------- bounds ----------------------------------- *)

\* backend record IDs are 1..MaxRecordId
MaxRecordId == 2
\* project IDs are 0..MaxProjectId, 0 meaning "no project"
MaxProjectId == 2
\* number of handler invocations (Read, Update, Delete) on a managed resource
\* in one behaviour; the Read that completes an import comes before them
MaxTime == 2

\* association IDs are 1..MaxAssocId
MaxAssocId == 3

\* longest list of association items in a configuration or a state
MaxListLen == 2

\* most filter clauses of a data source
MaxClauses == 2

\* most records in a backend listing
MaxRecords == 2

\* resource instances the plugin host processes concurrently
MaxInstances == 3

(* ---------------------------- strings ---------------------------------- *)

DigitChars == <<"0", "1", "2", "3", "4", "5", "6", "7", "8", "9">>

IsDigit(c) == \E i \in 1..10 : DigitChars[i] = c

DigitVal(c) == (CHOOSE i \in 1..10 : DigitChars[i] = c) - 1

RECURSIVE DigitsValue(_)
DigitsValue(s) ==
    IF s = <<>> THEN 0
    ELSE 10 * DigitsValue(SubSeq(s, 1, Len(s) - 1)) + DigitVal(s[Len(s)])

\* strconv.Atoi: an optional sign followed by one or more decimal digits
AtoiOk(s) ==
    LET body == IF s # <<>> /\ s[1] \in {"+", "-"} THEN Tail(s) ELSE s
    IN  body # <<>> /\ \A i \in 1..Len(body) : IsDigit(body[i])

Atoi(s) ==
    IF s[1] = "-" THEN 0 - DigitsValue(Tail(s))
    ELSE IF s[1] = "+" THEN DigitsValue(Tail(s))
    ELSE DigitsValue(s)

RECURSIVE NatDigits(_)
NatDigits(n) ==
    IF n < 10 THEN <<DigitChars[n + 1]>>
    ELSE NatDigits(n \div 10) \o <<DigitChars[(n % 10) + 1]>>

\* strconv.Itoa
Itoa(n) == IF n < 0 THEN <<"-">> \o NatDigits(0 - n) ELSE NatDigits(n)

\* strings.HasPrefix
HasPrefix(s, p) == Len(s) >= Len(p) /\ SubSeq(s, 1, Len(p)) = p

\* strings.ReplaceAll(s, c, ""), for a one-character c
RECURSIVE RemoveAll(_, _)
RemoveAll(s, c) ==
    IF s = <<>> THEN <<>>
    ELSE IF Head(s) = c THEN RemoveAll(Tail(s), c)
    ELSE <<Head(s)>> \o RemoveAll(Tail(s), c)

AccountIdMarker == <<"a", "c", "c", "o", "u", "n", "t", "_", "i", "d", "=">>

AccountCacheIdMarker ==
    <<"a", "c", "c", "o", "u", "n", "t", "_", "c", "a", "c", "h", "e", "_", "i", "d", "=">>

(* ---------------------------- constants -------------------------------- *)

CacheLocation == "cache"

ProjectLocation == "project"

\* the attributes resourceAccountUpdate watches for a field PATCH
ScalarKeys ==
    {"email", "name", "include_linked_account_spend", "linked_role",
     "skip_access_checking", "start_datecode", "use_org_account_info"}

(* ------------------------- schema.ResourceData ------------------------- *)
(* d = [id, old, new, cur]: old is the prior state, new the planned state  *)
(* (prior state merged with the diff), cur the planned state overlaid with *)
(* what the handler has written with d.Set; id is what d.Id() returns.     *)

\* the zero value of an attribute, by its schema type
ZeroValue(key) ==
    CASE key \in {"location", "email", "name", "linked_role"} -> ""
      [] key = "project_id" -> 0
      [] key \in {"start_datecode", "last_updated"} -> <<>>
      [] key \in {"labels", "move_project_settings"} -> {}
      [] OTHER -> FALSE

Get(d, key) == d.cur[key]

\* d.GetOk: the value, and whether it is set to something other than zero
GetOk(d, key) == [v |-> d.cur[key], exists |-> d.cur[key] # ZeroValue(key)]

\* d.GetChange: the prior and the planned value; d.Set does not show here
GetChange(d, key) == <<d.old[key], d.new[key]>>

HasChange(d, key) == d.old[key] # d.new[key]

Set(d, key, v) ==
    [id |-> d.id, old |-> d.old, new |-> d.new,
     cur |-> [k \in DOMAIN d.cur |-> IF k = key THEN v ELSE d.cur[k]]]

SetId(d, newId) == [id |-> newId, old |-> d.old, new |-> d.new, cur |-> d.cur]

\* ResourceData for a handler that runs without a diff (Read, Delete)
DataOf(rid, at) == [id |-> rid, old |-> at, new |-> at, cur |-> at]

\* ResourceData for Update: prior state and planned state
DataOfPlan(rid, at, pl) == [id |-> rid, old |-> at, new |-> pl, cur |-> pl]

(* ------------------------- location resolution ------------------------- *)

getKionAccountLocationMutProject(d) ==
    IF GetOk(d, "project_id").exists THEN ProjectLocation
    ELSE IF GetOk(d, "location").exists THEN GetOk(d, "location").v
    ELSE CacheLocation

getKionAccountLocation(d) ==
    IF GetOk(d, "location").exists THEN GetOk(d, "location").v
    ELSE IF GetOk(d, "project_id").exists THEN ProjectLocation
    ELSE CacheLocation

determineAccountLocation(ID, d) ==
    IF HasPrefix(ID, AccountIdMarker) THEN <<ProjectLocation, TRUE>>
    ELSE IF HasPrefix(ID, AccountCacheIdMarker) THEN <<CacheLocation, TRUE>>
    ELSE <<getKionAccountLocation(d), FALSE>>

(* ----------------------------- REST calls ------------------------------- *)
(* A call is [op, url, args, body, ok, record_id]: url is the format       *)
(* string, args the formatted arguments (%d through Itoa), ok the outcome  *)
(* the backend gave, record_id the record ID of the response, resp the      *)
(* record a GET decoded its response into.  A handler                      *)
(* run is r = [d, calls, err, hasChanged]: the ResourceData, the calls     *)
(* issued so far, the summary of the diagnostic returned ("" for none).    *)

NoBody == [none |-> TRUE]

NoError == ""

Call(op, url, args, body, ok, rid) ==
    [op |-> op, url |-> url, args |-> args, body |-> body, ok |-> ok,
     record_id |-> IF ok THEN rid ELSE 0, resp |-> NoBody]

Issue(r, c) == [r EXCEPT !.calls = Append(r.calls, c)]

\* hc.CreateDiagError: the diagnostic the handler returns at once
DiagError(r, summary) == [r EXCEPT !.err = summary]

Start(d) == [d |-> d, calls |-> <<>>, err |-> NoError, hasChanged |-> FALSE]

(* ------------------------------- Update -------------------------------- *)

getProjectIdChanges(d) == GetChange(d, "project_id")

convertCacheAccountToProjectAccountMutKeepDash(accountCacheId, newProjectId, startDatecode, ok, rid) ==
    Call("POST", "/v3/account-cache/%d/convert/%d?start_datecode=%s",
         <<Itoa(accountCacheId), Itoa(newProjectId), startDatecode>>,
         NoBody, ok, rid)

\* the call convertCacheAccountToProjectAccount issues, with its response
convertCacheAccountToProjectAccount(accountCacheId, newProjectId, startDatecode, ok, rid) ==
    Call("POST", "/v3/account-cache/%d/convert/%d?start_datecode=%s",
         <<Itoa(accountCacheId), Itoa(newProjectId), RemoveAll(startDatecode, "-")>>,
         NoBody, ok, rid)

\* the call convertProjectAccountToCacheAccount issues, with its response
convertProjectAccountToCacheAccount(accountId, ok, rid) ==
    Call("DeleteWithResponse", "/v3/account/revert/%d", <<Itoa(accountId)>>,
         NoBody, ok, rid)

handleCacheToProjectConversionMutNoParse(r, ID, newProjectId, ok, rid) ==
    LET c == convertCacheAccountToProjectAccount(
                 IF AtoiOk(ID) THEN Atoi(ID) ELSE 0, newProjectId,
                 Get(r.d, "start_datecode"), ok, rid)
    IN  IF ~c.ok
        THEN DiagError(Issue(r, c), "Unable to convert cached account to project account")
        ELSE [Issue(r, c) EXCEPT
                 !.d = Set(SetId(r.d, Itoa(c.record_id)), "location", ProjectLocation)]

handleCacheToProjectConversion(r, ID, newProjectId, ok, rid) ==
    IF ~AtoiOk(ID)
    THEN DiagError(r, "Unable to convert cached account to project account, invalid cached account id")
    ELSE LET c == convertCacheAccountToProjectAccount(
                      Atoi(ID), newProjectId, Get(r.d, "start_datecode"), ok, rid)
         IN  IF ~c.ok
             THEN DiagError(Issue(r, c), "Unable to convert cached account to project account")
             ELSE [Issue(r, c) EXCEPT
                      !.d = Set(SetId(r.d, Itoa(c.record_id)), "location", ProjectLocation)]

handleProjectToCacheConversionMutKeepId(r, ID, ok, rid) ==
    IF ~AtoiOk(ID)
    THEN DiagError(r, "Unable to convert project account to cache account, invalid account id")
    ELSE LET c == convertProjectAccountToCacheAccount(Atoi(ID), ok, rid)
         IN  IF ~c.ok
             THEN DiagError(Issue(r, c), "Unable to convert project account to cache account")
             ELSE [Issue(r, c) EXCEPT !.d = Set(r.d, "location", CacheLocation)]

handleProjectToCacheConversion(r, ID, ok, rid) ==
    IF ~AtoiOk(ID)
    THEN DiagError(r, "Unable to convert project account to cache account, invalid account id")
    ELSE LET c == convertProjectAccountToCacheAccount(Atoi(ID), ok, rid)
         IN  IF ~c.ok
             THEN DiagError(Issue(r, c), "Unable to convert project account to cache account")
             ELSE [Issue(r, c) EXCEPT
                      !.d = Set(SetId(r.d, Itoa(c.record_id)), "location", CacheLocation)]

createAccountMoveRequestMutNoOverride(d) ==
    [project_id |-> Get(d, "project_id"), financials |-> "move", move_datecode |-> 0]

createAccountMoveRequest(d) ==
    LET req == [project_id |-> Get(d, "project_id"), financials |-> "move",
                move_datecode |-> 0]
        v == GetOk(d, "move_project_settings")
    IN  IF v.exists
        THEN LET item == CHOOSE it \in v.v : TRUE
             IN  [req EXCEPT !.financials = item.financials,
                             !.move_datecode = item.move_datecode]
        ELSE req

moveAccountToDifferentProjectMutSetIdFirst(r, ID, ok, rid) ==
    LET c == Call("POST", "/v3/account/%s/move", <<ID>>,
                  createAccountMoveRequest(r.d), ok, rid)
        s == [Issue(r, c) EXCEPT !.d = SetId(r.d, Itoa(c.record_id))]
    IN  IF ~c.ok
        THEN DiagError(s, "Unable to move account to a different project")
        ELSE s

moveAccountToDifferentProject(r, ID, ok, rid) ==
    LET c == Call("POST", "/v3/account/%s/move", <<ID>>,
                  createAccountMoveRequest(r.d), ok, rid)
    IN  IF ~c.ok
        THEN DiagError(Issue(r, c), "Unable to move account to a different project")
        ELSE [Issue(r, c) EXCEPT !.d = SetId(r.d, Itoa(c.record_id))]

hasResourceChanges(d, keys) == \E key \in keys : HasChange(d, key)

createCacheAccountUpdateRequest(d) ==
    [name |-> Get(d, "name"),
     email |-> Get(d, "email"),
     linked_role |-> Get(d, "linked_role"),
     include_linked_account_spend |-> Get(d, "include_linked_account_spend"),
     skip_access_checking |-> Get(d, "skip_access_checking")]

createProjectAccountUpdateRequest(d) ==
    [name |-> Get(d, "name"),
     email |-> Get(d, "email"),
     linked_role |-> Get(d, "linked_role"),
     start_datecode |-> Get(d, "start_datecode"),
     include_linked_account_spend |-> Get(d, "include_linked_account_spend"),
     skip_access_checking |-> Get(d, "skip_access_checking"),
     use_org_account_info |-> Get(d, "use_org_account_info")]

updateAccountMutProjectOnly(r, ID, ok) ==
    LET c == Call("PATCH", "/v3/account/%s", <<ID>>,
                  createProjectAccountUpdateRequest(r.d), ok, 0)
    IN  IF ~c.ok THEN DiagError(Issue(r, c), "Unable to update account")
        ELSE Issue(r, c)

updateAccount(r, ID, ok) ==
    LET accountLocation == getKionAccountLocation(r.d)
        c == IF accountLocation = CacheLocation
             THEN Call("PATCH", "/v3/account-cache/%s", <<ID>>,
                       createCacheAccountUpdateRequest(r.d), ok, 0)
             ELSE Call("PATCH", "/v3/account/%s", <<ID>>,
                       createProjectAccountUpdateRequest(r.d), ok, 0)
    IN  IF ~c.ok THEN DiagError(Issue(r, c), "Unable to update account")
        ELSE Issue(r, c)

\* hc.PutAppLabelIDs(client, hc.FlattenAssociateLabels(d, "labels"), "account", ID)
updateAccountLabels(r, ID, ok) ==
    LET c == Call("PutAppLabelIDs", "account", <<ID>>,
                  [labels |-> Get(r.d, "labels")], ok, 0)
    IN  IF ~c.ok THEN DiagError(Issue(r, c), "Unable to update account labels")
        ELSE Issue(r, c)

Changed(r) == [r EXCEPT !.hasChanged = TRUE]

UpdateStructuralMutAlwaysMove(r, ID, e) ==
    LET ch == getProjectIdChanges(r.d)
        oldProjectId == ch[1]
        newProjectId == ch[2]
    IN  IF oldProjectId = 0 /\ newProjectId # 0
        THEN LET s == handleCacheToProjectConversion(r, ID, newProjectId, e.okStructural, e.recordId)
             IN  IF s.err # NoError THEN s ELSE Changed(s)
        ELSE IF oldProjectId # 0 /\ newProjectId = 0
        THEN LET s == handleProjectToCacheConversion(r, ID, e.okStructural, e.recordId)
             IN  IF s.err # NoError THEN s ELSE Changed(s)
        ELSE IF getKionAccountLocation(r.d) = ProjectLocation
        THEN LET s == moveAccountToDifferentProject(r, ID, e.okStructural, e.recordId)
             IN  IF s.err # NoError THEN s ELSE Changed(s)
        ELSE r

\* the switch on the project ID change (resourceAccountUpdate, first part)
UpdateStructural(r, ID, e) ==
    LET ch == getProjectIdChanges(r.d)
        oldProjectId == ch[1]
        newProjectId == ch[2]
    IN  IF oldProjectId = 0 /\ newProjectId # 0
        THEN LET s == handleCacheToProjectConversion(r, ID, newProjectId, e.okStructural, e.recordId)
             IN  IF s.err # NoError THEN s ELSE Changed(s)
        ELSE IF oldProjectId # 0 /\ newProjectId = 0
        THEN LET s == handleProjectToCacheConversion(r, ID, e.okStructural, e.recordId)
             IN  IF s.err # NoError THEN s ELSE Changed(s)
        ELSE IF getKionAccountLocation(r.d) = ProjectLocation /\ oldProjectId # newProjectId
        THEN LET s == moveAccountToDifferentProject(r, ID, e.okStructural, e.recordId)
             IN  IF s.err # NoError THEN s ELSE Changed(s)
        ELSE r

\* the field PATCH (resourceAccountUpdate, second part)
UpdateFields(r, ID, e) ==
    IF hasResourceChanges(r.d, ScalarKeys)
    THEN LET s == updateAccount(r, ID, e.okPatch)
         IN  IF s.err # NoError THEN s ELSE Changed(s)
    ELSE r

UpdateLabelsMutAnyLocation(r, ID, e) ==
    IF HasChange(r.d, "labels")
    THEN LET s == updateAccountLabels(r, ID, e.okLabels)
         IN  IF s.err # NoError THEN s ELSE Changed(s)
    ELSE r

\* the label update (resourceAccountUpdate, third part)
UpdateLabels(r, ID, e) ==
    IF getKionAccountLocation(r.d) = ProjectLocation /\ HasChange(r.d, "labels")
    THEN LET s == updateAccountLabels(r, ID, e.okLabels)
         IN  IF s.err # NoError THEN s ELSE Changed(s)
    ELSE r

UpdateTimestampMutAlways(r, t) == [r EXCEPT !.d = Set(r.d, "last_updated", t)]

\* last_updated, set when anything was done (resourceAccountUpdate, last part)
UpdateTimestamp(r, t) ==
    IF r.hasChanged THEN [r EXCEPT !.d = Set(r.d, "last_updated", t)] ELSE r

resourceAccountUpdateMutContinue(d, e, t) ==
    LET ID == d.id
        s1 == UpdateStructural(Start(d), ID, e)
        s2 == UpdateFields(s1, ID, e)
        s3 == UpdateLabels(s2, ID, e)
    IN  UpdateTimestamp(s3, t)

resourceAccountUpdateMutLabelsFirst(d, e, t) ==
    LET ID == d.id
        s1 == UpdateStructural(Start(d), ID, e)
    IN  IF s1.err # NoError THEN s1
        ELSE LET s2 == UpdateLabels(s1, ID, e)
             IN  IF s2.err # NoError THEN s2
                 ELSE LET s3 == UpdateFields(s2, ID, e)
                      IN  IF s3.err # NoError THEN s3
                          ELSE UpdateTimestamp(s3, t)

\* e: the outcomes the backend gives to the calls of this run; t: time.Now()
resourceAccountUpdate(d, e, t) ==
    LET ID == d.id
        s1 == UpdateStructural(Start(d), ID, e)
    IN  IF s1.err # NoError THEN s1
        ELSE LET s2 == UpdateFields(s1, ID, e)
             IN  IF s2.err # NoError THEN s2
                 ELSE LET s3 == UpdateLabels(s2, ID, e)
                      IN  IF s3.err # NoError THEN s3
                          ELSE UpdateTimestamp(s3, t)

(* -------------------------------- Read --------------------------------- *)

\* new(hc.AccountCacheResponse) after the GET decoded rec into it: a cached
\* account has no project, no start datecode and no use-org-info flag
AccountCacheResponse(rec) ==
    [k \in {"name", "email", "linked_role", "include_linked_account_spend",
            "skip_access_checking"} |-> rec[k]]

\* new(hc.AccountResponse) after the GET decoded rec into it
AccountResponse(rec) == rec

\* rec: the record the backend answers the GET with
fetchAccountDataMutProject(r, accountLocation, ID, ok, rec) ==
    LET c == Call("GET", "/v3/account/%s", <<ID>>, NoBody, ok, 0)
    IN  IF ~c.ok THEN DiagError(Issue(r, c), "Unable to read account")
        ELSE Issue(r, [c EXCEPT !.resp = AccountResponse(rec)])

fetchAccountData(r, accountLocation, ID, ok, rec) ==
    LET c == IF accountLocation = CacheLocation
             THEN Call("GET", "/v3/account-cache/%s", <<ID>>, NoBody, ok, 0)
             ELSE Call("GET", "/v3/account/%s", <<ID>>, NoBody, ok, 0)
        resp == IF accountLocation = CacheLocation
                THEN AccountCacheResponse(rec)
                ELSE AccountResponse(rec)
    IN  IF ~c.ok THEN DiagError(Issue(r, c), "Unable to read account")
        ELSE Issue(r, [c EXCEPT !.resp = resp])

updateLocation(r, ID, accountLocation) ==
    [r EXCEPT !.d = Set(SetId(r.d, ID), "location", accountLocation)]

\* hc.AccountCacheResponse.ToMap: the attributes of a cached account record
CacheToMap(rec) ==
    [k \in {"name", "email", "linked_role", "include_linked_account_spend",
            "skip_access_checking"} |-> rec[k]]

\* hc.AccountResponse.ToMap: the attributes of a project account record
ProjectToMap(rec) == [k \in ScalarKeys \cup {"project_id"} |-> rec[k]]

\* resp.ToMap, resp being the response type fetchAccountData chose
ToMap(accountLocation, rec) ==
    IF accountLocation = CacheLocation THEN CacheToMap(rec) ELSE ProjectToMap(rec)

setResourceData(r, data) ==
    [r EXCEPT !.d =
        [id |-> r.d.id, old |-> r.d.old, new |-> r.d.new,
         cur |-> [k \in DOMAIN r.d.cur |->
                     IF k \in DOMAIN data THEN data[k] ELSE r.d.cur[k]]]]

\* hc.ReadResourceLabels(client, "account", ID), then d.Set("labels", ...)
setAccountLabels(r, ID, ok, labelData) ==
    LET c == Call("ReadResourceLabels", "account", <<ID>>, NoBody, ok, 0)
    IN  IF ~c.ok THEN DiagError(Issue(r, c), "Unable to read account labels")
        ELSE [Issue(r, [c EXCEPT !.resp = labelData]) EXCEPT
                 !.d = Set(r.d, "labels", labelData)]

resourceAccountReadMutLabelsAnyLocation(d, e) ==
    LET ID == d.id
        loc == determineAccountLocation(ID, d)
        accountLocation == loc[1]
        locationChanged == loc[2]
        s1 == fetchAccountData(Start(d), accountLocation, ID, e.okGet, e.record)
    IN  IF s1.err # NoError THEN s1
        ELSE LET s2 == IF locationChanged
                       THEN updateLocation(s1, ID, accountLocation)
                       ELSE s1
                 resp == s1.calls[Len(s1.calls)].resp
                 s3 == setResourceData(s2, ToMap(accountLocation, resp))
             IN  setAccountLabels(s3, ID, e.okLabels, e.labels)

resourceAccountReadMutLocationFirst(d, e) ==
    LET ID == d.id
        loc == determineAccountLocation(ID, d)
        accountLocation == loc[1]
        locationChanged == loc[2]
        s0 == IF locationChanged
              THEN updateLocation(Start(d), ID, accountLocation)
              ELSE Start(d)
        s1 == fetchAccountData(s0, accountLocation, ID, e.okGet, e.record)
    IN  IF s1.err # NoError THEN s1
        ELSE LET resp == s1.calls[Len(s1.calls)].resp
                 s3 == setResourceData(s1, ToMap(accountLocation, resp))
             IN  IF accountLocation = ProjectLocation
                 THEN setAccountLabels(s3, ID, e.okLabels, e.labels)
                 ELSE s3

\* e: the outcomes and the records the backend gives to the calls of this run
resourceAccountRead(d, e) ==
    LET ID == d.id
        loc == determineAccountLocation(ID, d)
        accountLocation == loc[1]
        locationChanged == loc[2]
        s1 == fetchAccountData(Start(d), accountLocation, ID, e.okGet, e.record)
    IN  IF s1.err # NoError THEN s1
        ELSE LET s2 == IF locationChanged
                       THEN updateLocation(s1, ID, accountLocation)
                       ELSE s1
                 resp == s1.calls[Len(s1.calls)].resp
                 s3 == setResourceData(s2, ToMap(accountLocation, resp))
             IN  IF accountLocation = ProjectLocation
                 THEN setAccountLabels(s3, ID, e.okLabels, e.labels)
                 ELSE s3

(* ------------------------------- Delete -------------------------------- *)

resourceAccountDeleteMutClear(d, e) ==
    LET ID == d.id
        accountLocation == getKionAccountLocation(d)
        c == IF accountLocation = CacheLocation
             THEN Call("DELETE", "/v3/account-cache/%s", <<ID>>, NoBody, e.okDelete, 0)
             ELSE Call("DELETE", "/v3/account/%s", <<ID>>, NoBody, e.okDelete, 0)
        r == Issue(Start(d), c)
    IN  IF ~c.ok THEN DiagError([r EXCEPT !.d = SetId(r.d, <<>>)], "Unable to delete account")
        ELSE [r EXCEPT !.d = SetId(r.d, <<>>)]

resourceAccountDelete(d, e) ==
    LET ID == d.id
        accountLocation == getKionAccountLocation(d)
        c == IF accountLocation = CacheLocation
             THEN Call("DELETE", "/v3/account-cache/%s", <<ID>>, NoBody, e.okDelete, 0)
             ELSE Call("DELETE", "/v3/account/%s", <<ID>>, NoBody, e.okDelete, 0)
        r == Issue(Start(d), c)
    IN  IF ~c.ok THEN DiagError(r, "Unable to delete account")
        ELSE [r EXCEPT !.d = SetId(r.d, <<>>)]

(* ----------------------------- custom diff ----------------------------- *)

customDiffComputedAccountLocationMutKeepRecorded(planned) ==
    IF planned["location"] # ZeroValue("location") THEN planned
    ELSE IF planned["project_id"] # ZeroValue("project_id")
    THEN [planned EXCEPT !["location"] = ProjectLocation]
    ELSE [planned EXCEPT !["location"] = CacheLocation]

\* planned: the planned attributes (prior state merged with the configuration)
customDiffComputedAccountLocation(planned) ==
    IF planned["project_id"] # ZeroValue("project_id")
    THEN [planned EXCEPT !["location"] = ProjectLocation]
    ELSE [planned EXCEPT !["location"] = CacheLocation]

(* ------------------------- association differ ------------------------- *)
(* A Go map is a function from its keys to TRUE; ranging over a map visits *)
(* its keys once each, in an order the runtime chooses.                    *)

EmptyMap == [v \in {} |-> TRUE]

RECURSIVE makeMapFromArray(_)
makeMapFromArray(arr) ==
    IF arr = <<>> THEN EmptyMap
    ELSE (arr[Len(arr)] :> TRUE) @@ makeMapFromArray(SubSeq(arr, 1, Len(arr) - 1))

\* the orders in which `for v := range m` may visit the keys of m
RangeOrders(m) ==
    {o \in [1..Cardinality(DOMAIN m) -> DOMAIN m] :
        \A i, j \in DOMAIN o : i # j => o[i] # o[j]}

\* the results determineAssociations may return, one for each order
determineAssociationsMutSwapped(src, dest) ==
    LET mSrc == makeMapFromArray(src)
        mDest == makeMapFromArray(dest)
        NotInDest(v) == v \notin DOMAIN mDest
        NotInSrc(v) == v \notin DOMAIN mSrc
    IN  {LET arrAdd == SelectSeq(od, NotInSrc)
             arrRemove == SelectSeq(os, NotInDest)
         IN  [arrAdd |-> arrAdd, arrRemove |-> arrRemove,
              isChanged |-> arrAdd # <<>> \/ arrRemove # <<>>] :
            os \in RangeOrders(mSrc), od \in RangeOrders(mDest)}

determineAssociationsMutLength(src, dest) ==
    LET mSrc == makeMapFromArray(src)
        mDest == makeMapFromArray(dest)
        NotInDest(v) == v \notin DOMAIN mDest
        NotInSrc(v) == v \notin DOMAIN mSrc
    IN  {LET arrAdd == SelectSeq(os, NotInDest)
             arrRemove == SelectSeq(od, NotInSrc)
         IN  [arrAdd |-> arrAdd, arrRemove |-> arrRemove,
              isChanged |-> Len(src) # Len(dest)] :
            os \in RangeOrders(mSrc), od \in RangeOrders(mDest)}

determineAssociationsMutRangeList(src, dest) ==
    LET mSrc == makeMapFromArray(src)
        mDest == makeMapFromArray(dest)
        NotInDest(v) == v \notin DOMAIN mDest
        NotInSrc(v) == v \notin DOMAIN mSrc
    IN  {LET arrAdd == SelectSeq(src, NotInDest)
             arrRemove == SelectSeq(dest, NotInSrc)
         IN  [arrAdd |-> arrAdd, arrRemove |-> arrRemove,
              isChanged |-> arrAdd # <<>> \/ arrRemove # <<>>]}

determineAssociations(src, dest) ==
    LET mSrc == makeMapFromArray(src)
        mDest == makeMapFromArray(dest)
        NotInDest(v) == v \notin DOMAIN mDest
        NotInSrc(v) == v \notin DOMAIN mSrc
    IN  {LET arrAdd == SelectSeq(os, NotInDest)
             arrRemove == SelectSeq(od, NotInSrc)
         IN  [arrAdd |-> arrAdd, arrRemove |-> arrRemove,
              isChanged |-> arrAdd # <<>> \/ arrRemove # <<>>] :
            os \in RangeOrders(mSrc), od \in RangeOrders(mDest)}

\* the loop over the items of a list: the "id" of every item that is a map
RECURSIVE ItemIds(_)
ItemIds(items) ==
    IF items = <<>> THEN <<>>
    ELSE LET item == items[Len(items)]
             rest == ItemIds(SubSeq(items, 1, Len(items) - 1))
         IN  IF "id" \in DOMAIN item THEN Append(rest, item["id"]) ELSE rest

\* the results AssociationChanged may return for the change of a field
AssociationChanged(d, fieldname) ==
    LET ch == GetChange(d, fieldname)
        oldIDs == ItemIds(ch[1])
        newIDs == ItemIds(ch[2])
    IN  {[arrUserAdd |-> r.arrAdd, arrUserRemove |-> r.arrRemove,
          isChanged |-> r.isChanged, err |-> NoError] :
            r \in determineAssociations(newIDs, oldIDs)}

(* ----------------------------- data sources --------------------------- *)
(* A filter clause is [name, values, regex]; texts are sequences of        *)
(* characters.  The patterns modelled are a literal text, matched anywhere *)
(* in the field, and "^" followed by a literal text, matched at its start; *)
(* a pattern holding "(" does not compile.                                 *)

Contains(text, p) ==
    \E i \in 0..(Len(text) - Len(p)) : SubSeq(text, i + 1, i + Len(p)) = p

RegexCompiles(p) == \A i \in DOMAIN p : p[i] # "("

RegexMatch(p, text) ==
    IF p # <<>> /\ p[1] = "^" THEN HasPrefix(text, Tail(p)) ELSE Contains(text, p)

\* the field of a record rendered as text
Render(key, v) == IF key \in {"id", "project_id"} THEN Itoa(v) ELSE v

\* one clause against one record: the values tried in order until one matches
RECURSIVE MatchValues(_, _, _)
MatchValues(values, regex, text) ==
    IF values = <<>> THEN [match |-> FALSE, err |-> NoError]
    ELSE IF regex /\ ~RegexCompiles(Head(values))
    THEN [match |-> FALSE, err |-> "error parsing regexp"]
    ELSE IF (regex /\ RegexMatch(Head(values), text)) \/ (~regex /\ Head(values) = text)
    THEN [match |-> TRUE, err |-> NoError]
    ELSE MatchValues(Tail(values), regex, text)

\* hc.NewFilterable(d): the clauses of the "filter" blocks
NewFilterable(d) == Get(d, "filter")

\* f.Match(data): every clause in turn, until one does not match
RECURSIVE Match(_, _)
Match(f, data) ==
    IF f = <<>> THEN [match |-> TRUE, err |-> NoError]
    ELSE LET c == Head(f)
             m == MatchValues(c.values, c.regex, Render(c.name, data[c.name]))
         IN  IF m.err # NoError \/ ~m.match THEN m ELSE Match(Tail(f), data)

\* the map dataSourceAccountRead builds of one record of the listing
AccountData(item) == [k \in DOMAIN item |-> item[k]]

\* the loop over resp.Data: the list built so far, or the error of Match
RECURSIVE FilterAccountsMutKeepAll(_, _)
FilterAccountsMutKeepAll(f, items) ==
    IF items = <<>> THEN [arr |-> <<>>, err |-> NoError]
    ELSE LET rest == FilterAccountsMutKeepAll(f, SubSeq(items, 1, Len(items) - 1))
             data == AccountData(items[Len(items)])
             m == Match(f, data)
         IN  IF rest.err # NoError THEN rest
             ELSE IF m.err # NoError THEN [arr |-> <<>>, err |-> "Unable to filter Account"]
             ELSE [arr |-> Append(rest.arr, data), err |-> NoError]

RECURSIVE FilterAccounts(_, _)
FilterAccounts(f, items) ==
    IF items = <<>> THEN [arr |-> <<>>, err |-> NoError]
    ELSE LET rest == FilterAccounts(f, SubSeq(items, 1, Len(items) - 1))
             data == AccountData(items[Len(items)])
             m == Match(f, data)
         IN  IF rest.err # NoError THEN rest
             ELSE IF m.err # NoError THEN [arr |-> <<>>, err |-> "Unable to filter Account"]
             ELSE IF ~m.match THEN rest
             ELSE [arr |-> Append(rest.arr, data), err |-> NoError]

\* e: the outcome of the listing and the records the backend lists; t: time.Now()
dataSourceAccountRead(d, e, t) ==
    LET c == Call("GET", "/v3/account", <<>>, NoBody, e.okGet, 0)
        r == Issue(Start(d), IF c.ok THEN [c EXCEPT !.resp = e.data] ELSE c)
    IN  IF ~c.ok THEN DiagError(r, "Unable to read Account")
        ELSE LET l == FilterAccounts(NewFilterable(d), e.data)
             IN  IF l.err # NoError THEN DiagError(r, l.err)
                 ELSE [r EXCEPT !.d = SetId(Set(r.d, "list", l.arr), t)]

(* ------------------------- inputs of the model ------------------------- *)

RecordIds == 1..MaxRecordId

ProjectIds == 0..MaxProjectId

Datecode202403 == <<"2", "0", "2", "4", "-", "0", "3">>

Datecode202311 == <<"2", "0", "2", "3", "-", "1", "1">>

BaseScalars ==
    [email |-> "a@example.com", name |-> "account", linked_role |-> "Role",
     include_linked_account_spend |-> FALSE, skip_access_checking |-> FALSE,
     start_datecode |-> Datecode202403, use_org_account_info |-> FALSE]

AltScalars ==
    [email |-> "b@example.com", name |-> "renamed", linked_role |-> "Other",
     include_linked_account_spend |-> TRUE, skip_access_checking |-> TRUE,
     start_datecode |-> Datecode202311, use_org_account_info |-> TRUE]

\* the base values, and the base values with one attribute altered
ScalarChoices ==
    {BaseScalars} \cup {[BaseScalars EXCEPT ![k] = AltScalars[k]] : k \in ScalarKeys}

LabelChoices == {{}, {"env"}}

Config(sc, p, l, m) ==
    sc @@ [project_id |-> p, labels |-> l, move_project_settings |-> m]

AltEmail == [BaseScalars EXCEPT !["email"] = AltScalars["email"]]

MoveSettings == {[financials |-> "preserve", move_datecode |-> 202401]}

AltEmailOnly == {AltEmail}

\* configurations: the base values in every project; one scalar altered, the
\* email out of a project and the others in project 1; in project 1 also the
\* labels altered, alone and with the email, and move settings given; out of
\* a project the labels altered
Configs ==
    {Config(BaseScalars, p, {}, {}) : p \in ProjectIds} \cup
    {Config(AltEmail, 0, {}, {})} \cup
    {Config(sc, 1, {}, {}) : sc \in ScalarChoices \ AltEmailOnly} \cup
    {Config(BaseScalars, 1, {"env"}, {}), Config(AltEmail, 1, {"env"}, {})} \cup
    {Config(BaseScalars, 0, {"env"}, {})} \cup
    {Config(BaseScalars, 1, {}, MoveSettings)}

\* configurations a resource starts from: the base values in every project
InitConfigs == {Config(BaseScalars, p, {}, {}) : p \in ProjectIds}

\* the provider-managed attributes of a resource that was just created
Computed(cfg) ==
    [location |-> IF cfg["project_id"] # 0 THEN ProjectLocation ELSE CacheLocation,
     last_updated |-> <<>>]

\* the attributes of a resource that was just imported: nothing but the ID
ImportedAttrs ==
    [k \in ScalarKeys \cup {"project_id", "labels", "move_project_settings",
                            "location", "last_updated"} |-> ZeroValue(k)]

\* IDs a user may import: marked, bare, and not a number
ImportIds ==
    {AccountIdMarker \o Itoa(1), AccountCacheIdMarker \o Itoa(1), Itoa(1), <<"x">>}

\* records the backend may return for an account
BackendRecords == {sc @@ [project_id |-> p] : sc \in {BaseScalars}, p \in ProjectIds \ {0}}

\* a failed call returns no record ID
UpdateEnvs ==
    {e \in [okStructural : BOOLEAN, recordId : RecordIds, okPatch : BOOLEAN,
            okLabels : BOOLEAN] : ~e.okStructural => e.recordId = 1}

\* the outcome of a call that Update does not make for d is of no account:
\* without a change of project_id there is no structural call, without a
\* change of a scalar attribute no PATCH, without a change of labels no label
\* call
UpdateEnvsFor(d) ==
    {e \in UpdateEnvs :
        /\ (~HasChange(d, "project_id") => (e.okStructural /\ e.recordId = 1))
        /\ (~hasResourceChanges(d, ScalarKeys) => e.okPatch)
        /\ (~HasChange(d, "labels") => e.okLabels)}

ReadEnvs ==
    [okGet : BOOLEAN, record : BackendRecords, okLabels : BOOLEAN, labels : LabelChoices]

DeleteEnvs == [okDelete : BOOLEAN]

(* ---------------------------- state machine ---------------------------- *)

VARIABLES
    id,      \* the resource ID in persisted state
    attrs,   \* the attributes in persisted state
    now,     \* the clock time.Now() reads
    op,      \* the handler that ran last
    pre,     \* <<the ResourceData that handler was given>>
    calls,   \* the REST calls that handler issued, in order, with outcomes
    err,     \* the summary of the diagnostic it returned, "" for none
    resolved, \* <<what determineAccountLocation returned>>, once it was applied
    post,    \* <<the ResourceData as that handler left it when it returned>>
    field,   \* <<old, new>>: the change of an association field of a resource
    assoc,   \* <<what AssociationChanged returned for it>>, once it was applied
    origin   \* history: <<C, "converted">> when that handler converted the
             \* cached account C, <<C, "reverted">> when it reverted the account
             \* the handler before it had converted from C, <<>> otherwise
VARIABLES
    awsAccountCreationMux, \* the instance that holds the mutex, 0 for none
    pc                     \* where each instance stands in its Create

vars == <<id, attrs, now, op, pre, calls, err, resolved, post, field, assoc, origin,
          awsAccountCreationMux, pc>>

Init ==
    /\ \/ \E cfg \in InitConfigs :
             /\ id = Itoa(1)
             /\ attrs = cfg @@ Computed(cfg)
       \/ \E i \in ImportIds :
             /\ id = i
             /\ attrs = ImportedAttrs
    /\ now = 0
    /\ op = "none"
    /\ pre = <<>>
    /\ calls = <<>>
    /\ err = NoError
    /\ resolved = <<>>
    /\ post = <<>>
    /\ field = <<>>
    /\ assoc = <<>>
    /\ origin = <<>>
    /\ awsAccountCreationMux = 0
    /\ pc = <<>>

\* the time.Now() of a handler run, formatted
Timestamp(t) == Itoa(t)

\* terraform plan: the configuration merged over the prior state, then the
\* custom diff hook
Plan(at, cfg) ==
    customDiffComputedAccountLocation(
        [k \in DOMAIN at |-> IF k \in DOMAIN cfg THEN cfg[k] ELSE at[k]])

\* an import is complete once its Read has succeeded; until then there is
\* nothing to update or destroy
Managed == attrs # ImportedAttrs

\* refresh, and the Read of an import: the state is replaced only when Read
\* returns no error
Read ==
    /\ id # <<>>
    /\ now < MaxTime \/ ~Managed
    /\ \E d \in {DataOf(id, attrs)} :
       \E r \in {resourceAccountRead(d, e) : e \in ReadEnvs} :
              /\ id' = IF r.err = NoError THEN r.d.id ELSE id
              /\ attrs' = IF r.err = NoError THEN r.d.cur ELSE attrs
              /\ pre' = <<d>>
              /\ calls' = r.calls
              /\ err' = r.err
              /\ post' = <<r.d>>
    /\ op' = "read"
    /\ origin' = <<>>
    /\ now' = IF Managed THEN now + 1 ELSE now
    /\ UNCHANGED <<resolved, field, assoc, awsAccountCreationMux, pc>>

\* the history of a conversion and of the reversion that follows it at once
RoundTrip(o, d, r) ==
    LET ch == getProjectIdChanges(d)
        done == r.calls # <<>> /\ r.calls[1].ok
    IN  IF done /\ ch[1] = 0 /\ ch[2] # 0 THEN <<d.id, "converted">>
        ELSE IF done /\ ch[1] # 0 /\ ch[2] = 0 /\ o # <<>> /\ o[2] = "converted"
        THEN <<o[1], "reverted">>
        ELSE <<>>

UpdateMutDiscardOnError ==
    /\ id # <<>>
    /\ Managed
    /\ now < MaxTime
    /\ \E cfg \in Configs :
       \E d \in {DataOfPlan(id, attrs, Plan(attrs, cfg))} :
       \E r \in {resourceAccountUpdate(d, e, Timestamp(now + 1)) : e \in UpdateEnvsFor(d)} :
              /\ id' = IF r.err = NoError THEN r.d.id ELSE id
              /\ attrs' = IF r.err = NoError THEN r.d.cur ELSE attrs
              /\ pre' = <<d>>
              /\ calls' = r.calls
              /\ err' = r.err
              /\ post' = <<r.d>>
              /\ origin' = RoundTrip(origin, d, r)
    /\ op' = "update"
    /\ now' = now + 1
    /\ UNCHANGED <<resolved, field, assoc, awsAccountCreationMux, pc>>

\* plan and apply of a configuration: the state is replaced by what the
\* ResourceData holds when Update returns, with or without an error
Update ==
    /\ id # <<>>
    /\ Managed
    /\ now < MaxTime
    /\ \E cfg \in Configs :
       \E d \in {DataOfPlan(id, attrs, Plan(attrs, cfg))} :
       \E r \in {resourceAccountUpdate(d, e, Timestamp(now + 1)) : e \in UpdateEnvsFor(d)} :
              /\ id' = r.d.id
              /\ attrs' = r.d.cur
              /\ pre' = <<d>>
              /\ calls' = r.calls
              /\ err' = r.err
              /\ post' = <<r.d>>
              /\ origin' = RoundTrip(origin, d, r)
    /\ op' = "update"
    /\ now' = now + 1
    /\ UNCHANGED <<resolved, field, assoc, awsAccountCreationMux, pc>>

\* destroy: the resource is gone from the state only when Delete returns no error
Delete ==
    /\ id # <<>>
    /\ Managed
    /\ now < MaxTime
    /\ \E d \in {DataOf(id, attrs)} :
       \E r \in {resourceAccountDelete(d, e) : e \in DeleteEnvs} :
              /\ id' = IF r.err = NoError THEN r.d.id ELSE id
              /\ pre' = <<d>>
              /\ calls' = r.calls
              /\ err' = r.err
              /\ post' = <<r.d>>
    /\ op' = "delete"
    /\ origin' = <<>>
    /\ now' = now + 1
    /\ UNCHANGED <<attrs, resolved, field, assoc, awsAccountCreationMux, pc>>

Next == Read \/ Update \/ Delete

Spec == Init /\ [][Next]_vars

(* ------------------ location resolution on its own -------------------- *)
(* determineAccountLocation applied to every ID and every recorded         *)
(* location and project ID, whether or not Read and Update can leave the   *)
(* state so.                                                               *)

LocationInputs ==
    {[ImportedAttrs EXCEPT !["location"] = l, !["project_id"] = p] :
        l \in {"", CacheLocation, ProjectLocation}, p \in ProjectIds}

\* IDs with a marker, with part of one, with none, and the empty ID
LocationIds ==
    ImportIds \cup {Itoa(n) : n \in RecordIds} \cup
    {AccountIdMarker, AccountCacheIdMarker, SubSeq(AccountIdMarker, 1, 10), <<>>}

LocInit ==
    /\ id \in LocationIds
    /\ attrs \in LocationInputs
    /\ now = 0
    /\ op = "none"
    /\ pre = <<>>
    /\ calls = <<>>
    /\ err = NoError
    /\ resolved = <<>>
    /\ post = <<>>
    /\ field = <<>>
    /\ assoc = <<>>
    /\ origin = <<>>
    /\ awsAccountCreationMux = 0
    /\ pc = <<>>

Resolve ==
    /\ resolved = <<>>
    /\ resolved' = <<determineAccountLocation(id, DataOf(id, attrs))>>
    /\ op' = "resolve"
    /\ UNCHANGED <<id, attrs, now, pre, calls, err, post, field, assoc, origin,
                   awsAccountCreationMux, pc>>

LocNext == Resolve

LocSpec == LocInit /\ [][LocNext]_vars

(* --------------------- association differ on its own ------------------- *)
(* AssociationChanged applied to the change of the field "owner_users"     *)
(* from every list of items to every other.                                *)

\* an item of an association list: a map with an "id", or an empty block
AssocItems == {[id |-> n] : n \in 1..MaxAssocId} \cup {[none |-> TRUE]}

AssocLists == UNION {[1..n -> AssocItems] : n \in 0..MaxListLen}

AssocInit ==
    /\ field \in AssocLists \X AssocLists
    /\ assoc = <<>>
    /\ id = Itoa(1)
    /\ attrs = ImportedAttrs
    /\ now = 0
    /\ op = "none"
    /\ pre = <<>>
    /\ calls = <<>>
    /\ err = NoError
    /\ resolved = <<>>
    /\ post = <<>>
    /\ origin = <<>>
    /\ awsAccountCreationMux = 0
    /\ pc = <<>>

Diff ==
    /\ assoc = <<>>
    /\ \E r \in AssociationChanged(
                  [id |-> id, old |-> [owner_users |-> field[1]],
                   new |-> [owner_users |-> field[2]],
                   cur |-> [owner_users |-> field[2]]], "owner_users") :
           assoc' = <<r>>
    /\ op' = "diff"
    /\ UNCHANGED <<id, attrs, now, pre, calls, err, resolved, post, field, origin,
                   awsAccountCreationMux, pc>>

AssocNext == Diff

AssocSpec == AssocInit /\ [][AssocNext]_vars

(* ------------------------ data source on its own ----------------------- *)
(* dataSourceAccountRead for every filter of up to MaxClauses clauses and  *)
(* every backend listing of up to MaxRecords records.                      *)

NameProdA == <<"p", "-", "a">>

NameProdB == <<"p", "-", "b">>

NameTest == <<"t", "-", "p">>

\* records the backend may list
ListedAccounts ==
    {[id |-> 1, name |-> NameProdA, project_id |-> 0],
     [id |-> 2, name |-> NameProdB, project_id |-> 1],
     [id |-> 3, name |-> NameTest, project_id |-> 1],
     [id |-> 12, name |-> NameProdA, project_id |-> 2]}

\* clauses: one value, two values, no value, a pattern with and without the
\* regex flag, an unanchored pattern, a pattern that does not compile,
\* numbers as text
FilterClauses ==
    {[name |-> "name", values |-> <<NameProdA>>, regex |-> FALSE],
     [name |-> "name", values |-> <<NameTest, NameProdB>>, regex |-> FALSE],
     [name |-> "name", values |-> <<>>, regex |-> FALSE],
     [name |-> "name", values |-> <<<<"^", "p">>>>, regex |-> TRUE],
     [name |-> "name", values |-> <<<<"^", "p">>>>, regex |-> FALSE],
     [name |-> "name", values |-> <<<<"-", "p">>, <<"(">>>>, regex |-> TRUE],
     [name |-> "id", values |-> <<Itoa(1), Itoa(3)>>, regex |-> FALSE],
     [name |-> "project_id", values |-> <<Itoa(1)>>, regex |-> FALSE]}

Filters == UNION {[1..n -> FilterClauses] : n \in 0..MaxClauses}

Listings == UNION {[1..n -> ListedAccounts] : n \in 0..MaxRecords}

DataEnvs == {[okGet |-> ok, data |-> IF ok THEN data ELSE <<>>] :
                ok \in BOOLEAN, data \in Listings}

DataInit ==
    /\ id = <<>>
    /\ attrs \in {[filter |-> f, list |-> <<>>] : f \in Filters}
    /\ now = 0
    /\ op = "none"
    /\ pre = <<>>
    /\ calls = <<>>
    /\ err = NoError
    /\ resolved = <<>>
    /\ post = <<>>
    /\ field = <<>>
    /\ assoc = <<>>
    /\ origin = <<>>
    /\ awsAccountCreationMux = 0
    /\ pc = <<>>

\* refresh of the data source: nothing is kept when the read returns an error
DataRead ==
    /\ op = "none"
    /\ \E d \in {DataOf(id, attrs)} :
       \E r \in {dataSourceAccountRead(d, e, Timestamp(now + 1)) : e \in DataEnvs} :
              /\ id' = IF r.err = NoError THEN r.d.id ELSE id
              /\ attrs' = IF r.err = NoError THEN r.d.cur ELSE attrs
              /\ pre' = <<d>>
              /\ calls' = r.calls
              /\ err' = r.err
              /\ post' = <<r.d>>
    /\ op' = "data"
    /\ now' = now + 1
    /\ UNCHANGED <<resolved, field, assoc, origin, awsAccountCreationMux, pc>>

DataNext == DataRead

DataSpec == DataInit /\ [][DataNext]_vars

(* ------------------------- concurrent creation ------------------------- *)
(* The Create of concurrently processed instances: each takes the mutex,   *)
(* sends its account-creation request, gets the answer and releases the    *)
(* mutex on return.  calls holds the requests answered so far, in order.   *)

Instances == 1..MaxInstances

CreateInit ==
    /\ awsAccountCreationMux = 0
    /\ pc = [i \in Instances |-> "create"]
    /\ id = <<>>
    /\ attrs = ImportedAttrs
    /\ now = 0
    /\ op = "none"
    /\ pre = <<>>
    /\ calls = <<>>
    /\ err = NoError
    /\ resolved = <<>>
    /\ post = <<>>
    /\ field = <<>>
    /\ assoc = <<>>
    /\ origin = <<>>

\* awsAccountCreationMux.Lock(): blocks while another instance holds it
CreateLockMutNoWait(i) ==
    /\ pc[i] = "create"
    /\ awsAccountCreationMux' = i
    /\ pc' = [pc EXCEPT ![i] = "locked"]
    /\ UNCHANGED <<id, attrs, now, op, pre, calls, err, resolved, post, field, assoc,
                   origin>>

CreateLock(i) ==
    /\ pc[i] = "create"
    /\ awsAccountCreationMux = 0
    /\ awsAccountCreationMux' = i
    /\ pc' = [pc EXCEPT ![i] = "locked"]
    /\ UNCHANGED <<id, attrs, now, op, pre, calls, err, resolved, post, field, assoc,
                   origin>>

\* the account-creation request leaves for the backend
CreateRequest(i) ==
    /\ pc[i] = "locked"
    /\ pc' = [pc EXCEPT ![i] = "inflight"]
    /\ UNCHANGED <<id, attrs, now, op, pre, calls, err, resolved, post, field, assoc,
                   origin, awsAccountCreationMux>>

\* the backend answers it, with a new record ID when it created the account
CreateResponse(i) ==
    /\ pc[i] = "inflight"
    /\ \E ok \in BOOLEAN :
           calls' = Append(calls, Call("POST", "account creation", <<i>>, NoBody,
                                       ok, Len(calls) + 1))
    /\ pc' = [pc EXCEPT ![i] = "answered"]
    /\ UNCHANGED <<id, attrs, now, op, pre, err, resolved, post, field, assoc,
                   origin, awsAccountCreationMux>>

\* awsAccountCreationMux.Unlock(), when Create returns
CreateUnlock(i) ==
    /\ pc[i] = "answered"
    /\ awsAccountCreationMux' = 0
    /\ pc' = [pc EXCEPT ![i] = "done"]
    /\ UNCHANGED <<id, attrs, now, op, pre, calls, err, resolved, post, field, assoc,
                   origin>>

CreateNext ==
    \E i \in Instances :
        CreateLock(i) \/ CreateRequest(i) \/ CreateResponse(i) \/ CreateUnlock(i)

CreateSpec == CreateInit /\ [][CreateNext]_vars

TypeOK ==
    /\ attrs["location"] \in {"", CacheLocation, ProjectLocation}
    /\ attrs["project_id"] \in ProjectIds
    /\ now \in 0..MaxTime

(* ------------------------------ properties ----------------------------- *)

ConvertUrl == "/v3/account-cache/%d/convert/%d?start_datecode=%s"

RevertUrl == "/v3/account/revert/%d"

MoveUrl == "/v3/account/%s/move"

ProjectUrl == "/v3/account/%s"

CacheUrl == "/v3/account-cache/%s"

InvalidCacheIdError ==
    "Unable to convert cached account to project account, invalid cached account id"

InvalidAccountIdError ==
    "Unable to convert project account to cache account, invalid account id"

\* the diagnostics with which the structural step of Update ends it
StructuralErrors ==
    {InvalidCacheIdError, InvalidAccountIdError,
     "Unable to convert cached account to project account",
     "Unable to convert project account to cache account",
     "Unable to move account to a different project"}

\* the calls of the last handler that went to the given URL format
CallsTo(url) == {i \in DOMAIN calls : calls[i].url = url}

NotDash(ch) == ch # "-"

\* the last handler was an Update and the project ID it was given changed so
IsConversion ==
    op = "update" /\ pre[1].old["project_id"] = 0 /\ pre[1].new["project_id"] # 0

IsReversion ==
    op = "update" /\ pre[1].old["project_id"] # 0 /\ pre[1].new["project_id"] = 0

IsMove ==
    /\ op = "update"
    /\ pre[1].old["project_id"] # 0
    /\ pre[1].new["project_id"] # 0
    /\ pre[1].old["project_id"] # pre[1].new["project_id"]

FieldsDiffer == \E k \in ScalarKeys : pre[1].old[k] # pre[1].new[k]

PatchCalls == {i \in DOMAIN calls : calls[i].op = "PATCH"}

\* C1: after every Read or Update that returned no error, the recorded
\* location is "project" if and only if the recorded project_id is not 0.
\* An imported ID keeps its marker (C9_MarkerStripped), so a Read after a
\* failed conversion of "account_cache_id=1" resolves "cache" from the marker
\* while the planned project_id stays recorded.
C1_LocationIffProject ==
    (op \in {"read", "update"} /\ err = NoError) =>
        (attrs["location"] = ProjectLocation <=> attrs["project_id"] # 0)

\* C2: when project_id changes from 0 to P # 0 and the resource ID parses as
\* the integer C, Update issues exactly one convert call, POST
\* /v3/account-cache/C/convert/P with the configured start datecode stripped
\* of every "-" (2024-03 gives 202403); when that call succeeds the resource
\* ID is the record ID it returned and the location is "project".
C2_Conversion ==
    (IsConversion /\ AtoiOk(pre[1].id)) =>
        /\ Cardinality(CallsTo(ConvertUrl)) = 1
        /\ calls[1].op = "POST"
        /\ calls[1].url = ConvertUrl
        /\ calls[1].args =
               <<Itoa(Atoi(pre[1].id)), Itoa(pre[1].new["project_id"]),
                 SelectSeq(pre[1].new["start_datecode"], NotDash)>>
        /\ (pre[1].new["start_datecode"] = Datecode202403 =>
               calls[1].args[3] = <<"2", "0", "2", "4", "0", "3">>)
        /\ (calls[1].ok =>
               /\ AtoiOk(id)
               /\ Atoi(id) = calls[1].record_id
               /\ attrs["location"] = ProjectLocation)

\* a conversion that succeeded, with a dash in the datecode, to a new ID
C2_Witness ==
    /\ IsConversion
    /\ calls # <<>>
    /\ calls[1].ok
    /\ id # pre[1].id
    /\ pre[1].new["start_datecode"] = Datecode202403
    /\ calls[1].args[3] # pre[1].new["start_datecode"]

\* C3: when project_id changes from a non-zero value to 0, the resource ID
\* being the integer ID of the project account (C8 covers an ID that does not
\* parse), Update issues exactly one revert call, /v3/account/revert/{id} for
\* that ID; when the call succeeds the resource ID is the record ID it
\* returned and the location is "cache".
C3_Reversion ==
    (IsReversion /\ AtoiOk(pre[1].id)) =>
        /\ Cardinality(CallsTo(RevertUrl)) = 1
        /\ calls[1].url = RevertUrl
        /\ calls[1].args = <<Itoa(Atoi(pre[1].id))>>
        /\ (calls[1].ok =>
               /\ AtoiOk(id)
               /\ Atoi(id) = calls[1].record_id
               /\ attrs["location"] = CacheLocation)

\* a reversion that succeeded, to a new ID
C3_Witness ==
    /\ IsReversion
    /\ calls # <<>>
    /\ calls[1].ok
    /\ id # pre[1].id
    /\ attrs["location"] = CacheLocation

\* C4: when project_id changes from A # 0 to B # 0, B # A, Update POSTs to
\* /v3/account/{id}/move a request with project B whose financial setting is
\* "move" and whose move date is 0 unless a move_project_settings block gives
\* others; when the call succeeds the resource ID is the record ID it
\* returned, and the location recorded after the Update is "project" (that it
\* was "project" before is the invariant of C1, not a property of the move).
C4_Move ==
    IsMove =>
        /\ Cardinality(CallsTo(MoveUrl)) = 1
        /\ calls[1].op = "POST"
        /\ calls[1].url = MoveUrl
        /\ calls[1].args = <<pre[1].id>>
        /\ calls[1].body.project_id = pre[1].new["project_id"]
        /\ (pre[1].new["move_project_settings"] = {} =>
               /\ calls[1].body.financials = "move"
               /\ calls[1].body.move_datecode = 0)
        /\ \A item \in pre[1].new["move_project_settings"] :
               /\ calls[1].body.financials = item.financials
               /\ calls[1].body.move_datecode = item.move_datecode
        /\ (calls[1].ok =>
               /\ AtoiOk(id)
               /\ Atoi(id) = calls[1].record_id
               /\ attrs["location"] = ProjectLocation)

\* a move that succeeded with the default financial setting
C4_Witness ==
    /\ IsMove
    /\ calls # <<>>
    /\ calls[1].ok
    /\ calls[1].body.financials = "move"
    /\ id # pre[1].id

\* C5, as claimed: whenever one of the seven scalar attributes differs, Update
\* issues one PATCH, to the endpoint of the location as it stands after the
\* structural operation, the cache payload without start_datecode and
\* use_org_account_info; when none differs it issues no PATCH.
C5_Original ==
    op = "update" =>
        /\ FieldsDiffer =>
               /\ Cardinality(PatchCalls) = 1
               /\ \A i \in PatchCalls :
                      IF attrs["location"] = CacheLocation
                      THEN /\ calls[i].url = CacheUrl
                           /\ DOMAIN calls[i].body \cap
                                  {"start_datecode", "use_org_account_info"} = {}
                      ELSE calls[i].url = ProjectUrl
        /\ ~FieldsDiffer => PatchCalls = {}

\* C5, amended: the same, for an Update whose structural step did not end it
\* with an error; an Update that the structural step ended issues no PATCH.
C5_Patch ==
    op = "update" =>
        /\ (FieldsDiffer /\ err \notin StructuralErrors) =>
               /\ Cardinality(PatchCalls) = 1
               /\ \A i \in PatchCalls :
                      IF attrs["location"] = CacheLocation
                      THEN /\ calls[i].url = CacheUrl
                           /\ DOMAIN calls[i].body \cap
                                  {"start_datecode", "use_org_account_info"} = {}
                      ELSE calls[i].url = ProjectUrl
        /\ (~FieldsDiffer \/ err \in StructuralErrors) => PatchCalls = {}

\* a PATCH of a cached account that was reverted in the same Update
C5_Witness ==
    /\ IsReversion
    /\ FieldsDiffer
    /\ Len(calls) = 2
    /\ calls[1].ok
    /\ calls[2].op = "PATCH"
    /\ calls[2].url = CacheUrl

\* C6: in Read, Update and Delete a call that fails is the last call of the
\* run, and the run returns an error diagnostic.
C6_FirstFailureEnds ==
    op \in {"read", "update", "delete"} =>
        \A i \in DOMAIN calls :
            ~calls[i].ok => (i = Len(calls) /\ err # NoError)

\* an Update whose structural call failed although fields and labels differ
C6_Witness ==
    /\ op = "update"
    /\ FieldsDiffer
    /\ pre[1].old["labels"] # pre[1].new["labels"]
    /\ Len(calls) = 1
    /\ ~calls[1].ok
    /\ calls[1].url \in {ConvertUrl, RevertUrl, MoveUrl}
    /\ err # NoError

\* the last handler was an Update whose conversion or reversion succeeded and
\* whose later call failed
StructuralDoneThenFailed ==
    /\ op = "update"
    /\ err # NoError
    /\ Len(calls) >= 2
    /\ calls[1].url \in {ConvertUrl, RevertUrl}
    /\ calls[1].ok

\* C7: when the conversion or reversion succeeded and a later call of the
\* same Update failed, the persisted state has the new resource ID and the
\* new location, and the Update that follows issues no call to the
\* conversion (respectively reversion) endpoint.
C7_PartialProgressKept ==
    /\ [](StructuralDoneThenFailed =>
            /\ id = Itoa(calls[1].record_id)
            /\ attrs["location"] =
                   IF calls[1].url = ConvertUrl THEN ProjectLocation ELSE CacheLocation)
    /\ [][(StructuralDoneThenFailed /\ op' = "update") =>
             \A i \in DOMAIN calls' : calls'[i].url # calls[1].url]_vars

\* a conversion that succeeded before the PATCH failed, with time for another
\* Update
C7_Witness ==
    /\ StructuralDoneThenFailed
    /\ calls[1].url = ConvertUrl
    /\ calls[2].op = "PATCH"
    /\ now < MaxTime

\* C8: on the conversion and the reversion path, a resource ID that does not
\* parse as an integer gives the diagnostic of an invalid ID, and the Update
\* issues no call.
C8_MalformedId ==
    ((IsConversion \/ IsReversion) /\ ~AtoiOk(pre[1].id)) =>
        /\ calls = <<>>
        /\ err = IF IsConversion THEN InvalidCacheIdError ELSE InvalidAccountIdError

\* a conversion refused for an ID that is not a number
C8_Witness ==
    /\ IsConversion
    /\ ~AtoiOk(pre[1].id)
    /\ err = InvalidCacheIdError

\* the marker the ID of the last handler's ResourceData starts with, if any
MarkerOf(i) ==
    IF HasPrefix(i, AccountIdMarker) THEN AccountIdMarker
    ELSE IF HasPrefix(i, AccountCacheIdMarker) THEN AccountCacheIdMarker
    ELSE <<>>

\* C9: when the resource ID starts with "account_id=" or "account_cache_id=",
\* Read fetches from the endpoint of the marker's location with the bare
\* identifier, and on success persists the bare identifier and that location.
C9_MarkerStripped ==
    (op = "read" /\ MarkerOf(pre[1].id) # <<>>) =>
        LET bare == SubSeq(pre[1].id, Len(MarkerOf(pre[1].id)) + 1, Len(pre[1].id))
            location == IF MarkerOf(pre[1].id) = AccountIdMarker
                        THEN ProjectLocation ELSE CacheLocation
        IN  /\ calls[1].url =
                   IF location = ProjectLocation THEN ProjectUrl ELSE CacheUrl
            /\ calls[1].args = <<bare>>
            /\ (err = NoError => (id = bare /\ attrs["location"] = location))

\* C10: for an ID without a marker, determineAccountLocation returns the
\* recorded location when one is recorded, whatever the project_id, and else
\* "project" for a non-zero project_id and "cache" for 0 or none; it reports
\* no change of the location.
C10_ResolutionWithoutMarker ==
    (resolved # <<>> /\ MarkerOf(id) = <<>>) =>
        /\ resolved[1][1] =
               IF attrs["location"] # "" THEN attrs["location"]
               ELSE IF attrs["project_id"] # 0 THEN ProjectLocation
               ELSE CacheLocation
        /\ resolved[1][2] = FALSE

\* a recorded location "cache" returned against a non-zero project_id
C10_Witness ==
    /\ resolved # <<>>
    /\ MarkerOf(id) = <<>>
    /\ attrs["location"] = CacheLocation
    /\ attrs["project_id"] # 0
    /\ resolved[1][1] = CacheLocation

\* the location Read resolved for the ResourceData it was given
ResolvedLocation == determineAccountLocation(pre[1].id, pre[1])[1]

\* C11: every Read issues exactly one account fetch, its first call, a GET to
\* /v3/account/{id} when the resolved location is project and to
\* /v3/account-cache/{id} when it is cache; when the fetch succeeds every
\* attribute of the fetched record is written into the ResourceData, and a
\* Read without error leaves it in the state.
C11_ReadFetch ==
    op = "read" =>
        /\ {i \in DOMAIN calls : calls[i].op = "GET"} = {1}
        /\ calls[1].args = <<pre[1].id>>
        /\ ResolvedLocation \in {CacheLocation, ProjectLocation}
        /\ (ResolvedLocation = ProjectLocation => calls[1].url = ProjectUrl)
        /\ (ResolvedLocation = CacheLocation => calls[1].url = CacheUrl)
        /\ (calls[1].ok =>
               \A k \in DOMAIN calls[1].resp : post[1].cur[k] = calls[1].resp[k])
        /\ (err = NoError =>
               \A k \in DOMAIN calls[1].resp : attrs[k] = calls[1].resp[k])

\* a cached account read for the first time, its record now in the state
C11_Witness ==
    /\ op = "read"
    /\ err = NoError
    /\ calls[1].url = CacheUrl
    /\ pre[1].cur["name"] = ""
    /\ attrs["name"] = calls[1].resp["name"]
    /\ attrs["name"] # ""

\* C12: when the ID carries an import marker, the location of the marker and
\* the bare ID are in the ResourceData before the fetch, hence whether or not
\* the fetch succeeds.
C12_LocationPersistedFirst ==
    (op = "read" /\ MarkerOf(pre[1].id) # <<>>) =>
        /\ post[1].cur["location"] = ResolvedLocation
        /\ post[1].id =
               SubSeq(pre[1].id, Len(MarkerOf(pre[1].id)) + 1, Len(pre[1].id))

\* C13: Delete issues one call, a DELETE to /v3/account-cache/{id} when the
\* location it resolves (the recorded one, else the one the project_id
\* gives) is cache and to /v3/account/{id} when it is project; the resource
\* ID is cleared if and only if that call succeeded, and is otherwise as it
\* was.
C13_Delete ==
    op = "delete" =>
        LET location == IF pre[1].cur["location"] # "" THEN pre[1].cur["location"]
                        ELSE IF pre[1].cur["project_id"] # 0 THEN ProjectLocation
                        ELSE CacheLocation
        IN  /\ Len(calls) = 1
            /\ calls[1].op = "DELETE"
            /\ calls[1].args = <<pre[1].id>>
            /\ location \in {CacheLocation, ProjectLocation}
            /\ (location = CacheLocation => calls[1].url = CacheUrl)
            /\ (location = ProjectLocation => calls[1].url = ProjectUrl)
            /\ (post[1].id = <<>> <=> calls[1].ok)
            /\ (id = <<>> <=> calls[1].ok)
            /\ (~calls[1].ok => (id = pre[1].id /\ post[1].id = pre[1].id))
            /\ (err = NoError <=> calls[1].ok)

\* a DELETE of a project account that failed and left the ID
C13_Witness ==
    /\ op = "delete"
    /\ calls[1].url = ProjectUrl
    /\ ~calls[1].ok
    /\ id = pre[1].id
    /\ id # <<>>

\* the label-update calls of the last handler
LabelCalls == {i \in DOMAIN calls : calls[i].op = "PutAppLabelIDs"}

LabelsDiffer == pre[1].old["labels"] # pre[1].new["labels"]

\* the diagnostics with which a step before the label update ends Update
EarlierErrors == StructuralErrors \cup {"Unable to update account"}

\* C14, as claimed: Update issues a label-update call if and only if the
\* labels changed and the location, as it stands after the structural
\* operation, is "project".
C14_Original ==
    op = "update" =>
        (LabelCalls # {} <=>
            (LabelsDiffer /\ post[1].cur["location"] = ProjectLocation))

\* C14, amended: Update issues a label-update call, and only one, if and only
\* if the labels changed, the location after the structural operation is
\* "project" and neither the structural step nor the PATCH ended the Update
\* with an error; for a location "cache" it issues none.
C14_Labels ==
    op = "update" =>
        /\ Cardinality(LabelCalls) <= 1
        /\ (LabelCalls # {} <=>
               /\ LabelsDiffer
               /\ post[1].cur["location"] = ProjectLocation
               /\ err \notin EarlierErrors)
        /\ (post[1].cur["location"] = CacheLocation => LabelCalls = {})
        /\ \A i \in LabelCalls :
               /\ i = Len(calls)
               /\ calls[i].body.labels = pre[1].new["labels"]

\* labels updated for an account that the same Update converted
C14_Witness ==
    /\ IsConversion
    /\ LabelsDiffer
    /\ LabelCalls # {}
    /\ calls[1].ok
    /\ pre[1].old["location"] = CacheLocation
    /\ attrs["location"] = ProjectLocation

\* labels changed for a cached account: no label call
C14_WitnessCache ==
    /\ op = "update"
    /\ LabelsDiffer
    /\ err = NoError
    /\ attrs["location"] = CacheLocation
    /\ LabelCalls = {}

\* a structural operation, a PATCH or a label update was performed: the
\* backend carried out a call of the Update
Performed == \E i \in DOMAIN calls : calls[i].ok

\* C15, as claimed: an Update in which a structural operation, a PATCH or a
\* label update was performed sets last_updated to the time of the Update,
\* and an Update that performed none leaves last_updated as it was.
C15_Original ==
    op = "update" =>
        /\ Performed =>
               /\ attrs["last_updated"] = Timestamp(now)
               /\ attrs["last_updated"] # pre[1].old["last_updated"]
        /\ ~Performed => attrs["last_updated"] = pre[1].old["last_updated"]

\* C15, amended: an Update that returned no error and in which a structural
\* operation, a PATCH or a label update was performed sets last_updated to
\* the time of the Update; an Update that performed none, or that returned an
\* error, leaves last_updated as it was.
C15_LastUpdated ==
    op = "update" =>
        /\ (Performed /\ err = NoError) =>
               /\ attrs["last_updated"] = Timestamp(now)
               /\ attrs["last_updated"] # pre[1].old["last_updated"]
        /\ (~Performed \/ err # NoError) =>
               attrs["last_updated"] = pre[1].old["last_updated"]

\* an Update that only updated the labels, and one that had nothing to do
C15_Witness ==
    /\ op = "update"
    /\ err = NoError
    /\ Len(calls) = 1
    /\ LabelCalls = {1}
    /\ attrs["last_updated"] = Timestamp(now)
    /\ pre[1].old["last_updated"] # Timestamp(now)

C15_WitnessNone ==
    /\ op = "update"
    /\ calls = <<>>
    /\ err = NoError
    /\ attrs["last_updated"] # <<>>
    /\ attrs["last_updated"] = pre[1].old["last_updated"]

\* the IDs of a list of association items, as a set
IdSet(items) == {items[i]["id"] : i \in {j \in DOMAIN items : "id" \in DOMAIN items[j]}}

Elems(seq) == {seq[i] : i \in DOMAIN seq}

\* C16: the differ returns add = new - old and remove = old - new as sets, each
\* ID once: no ID is in both, and no ID common to old and new is in either.
C16_SetDifference ==
    assoc # <<>> =>
        LET old == IdSet(field[1])
            new == IdSet(field[2])
            add == assoc[1].arrUserAdd
            remove == assoc[1].arrUserRemove
        IN  /\ Elems(add) = new \ old
            /\ Elems(remove) = old \ new
            /\ Len(add) = Cardinality(new \ old)
            /\ Len(remove) = Cardinality(old \ new)
            /\ Elems(add) \cap Elems(remove) = {}
            /\ (Elems(add) \cup Elems(remove)) \cap (old \cap new) = {}

\* lists with a common ID, one ID to add and one to remove
C16_Witness ==
    /\ assoc # <<>>
    /\ IdSet(field[1]) \cap IdSet(field[2]) # {}
    /\ assoc[1].arrUserAdd # <<>>
    /\ assoc[1].arrUserRemove # <<>>

\* C17: the changed flag is true if and only if the old and new ID sets
\* differ, that is if and only if add or remove is not empty; lists of the same
\* IDs, in whatever order and however often repeated, give empty add, empty
\* remove and changed = FALSE.
C17_ChangedFlag ==
    assoc # <<>> =>
        /\ (assoc[1].isChanged <=> IdSet(field[1]) # IdSet(field[2]))
        /\ (assoc[1].isChanged <=>
               (assoc[1].arrUserAdd # <<>> \/ assoc[1].arrUserRemove # <<>>))
        /\ (IdSet(field[1]) = IdSet(field[2]) =>
               /\ assoc[1].arrUserAdd = <<>>
               /\ assoc[1].arrUserRemove = <<>>
               /\ ~assoc[1].isChanged)

\* the same ID once in the old list and twice in the new one
C17_Witness ==
    /\ assoc # <<>>
    /\ Len(field[1]) # Len(field[2])
    /\ IdSet(field[1]) = IdSet(field[2])
    /\ IdSet(field[1]) # {}
    /\ ~assoc[1].isChanged

\* C18, as claimed: a conversion followed at once by a reversion of the same
\* account ends with location "cache" and with the cache-account ID the
\* revert call returned, an ID different from the original cache ID.
C18_Original ==
    (origin # <<>> /\ origin[2] = "reverted") =>
        /\ attrs["location"] = CacheLocation
        /\ id = Itoa(calls[1].record_id)
        /\ id # origin[1]

\* C18, amended: it ends with location "cache" and with the cache-account ID
\* the revert call returned, whatever the original cache ID was.
C18_RoundTrip ==
    (origin # <<>> /\ origin[2] = "reverted") =>
        /\ attrs["location"] = CacheLocation
        /\ calls[1].url = RevertUrl
        /\ id = Itoa(calls[1].record_id)
        /\ post[1].id = id

\* a round trip that ended with another cache ID than it started from
C18_Witness ==
    /\ origin # <<>>
    /\ origin[2] = "reverted"
    /\ attrs["location"] = CacheLocation
    /\ id # origin[1]
    /\ id # pre[1].id

\* a record matches a clause when one of the clause's values equals its
\* field, or with the regex flag matches it
MatchesClause(rec, c) ==
    \E i \in DOMAIN c.values :
        IF c.regex THEN RegexMatch(c.values[i], Render(c.name, rec[c.name]))
        ELSE c.values[i] = Render(c.name, rec[c.name])

MatchesFilter(rec, f) == \A i \in DOMAIN f : MatchesClause(rec, f[i])

\* C19: a data-source read that returns no error sets its list to the backend
\* records that match every filter clause, in the order of the listing, each
\* with its field content; with no clause the list is the whole listing.
C19_FilteredList ==
    (op = "data" /\ err = NoError) =>
        LET f == pre[1].cur["filter"]
            Matching(rec) == MatchesFilter(rec, f)
        IN  /\ attrs["list"] = SelectSeq(calls[1].resp, Matching)
            /\ (f = <<>> => attrs["list"] = calls[1].resp)

\* two clauses, a listing of which one record matches both and one does not
C19_Witness ==
    /\ op = "data"
    /\ err = NoError
    /\ Len(pre[1].cur["filter"]) = 2
    /\ pre[1].cur["filter"][1] # pre[1].cur["filter"][2]
    /\ Len(calls[1].resp) = 2
    /\ Len(attrs["list"]) = 1
    /\ \E i \in 1..2 : ~MatchesClause(calls[1].resp[i], pre[1].cur["filter"][2])
                       /\ MatchesClause(calls[1].resp[i], pre[1].cur["filter"][1])

\* the instances whose account-creation request is in flight
InFlight == {i \in DOMAIN pc : pc[i] = "inflight"}

\* C20: at no time are two account-creation requests in flight at once, and
\* the instance whose request is in flight holds the mutex.
C20_CreationSerialized ==
    /\ Cardinality(InFlight) <= 1
    /\ \A i \in InFlight : awsAccountCreationMux = i

\* a request in flight while another instance waits for the mutex, after a
\* third one was answered
C20_Witness ==
    /\ InFlight # {}
    /\ \E i \in DOMAIN pc : pc[i] = "create"
    /\ calls # <<>>

\* the URLs of the structural calls of Update
StructuralUrls == {ConvertUrl, RevertUrl, MoveUrl}

\* the structural calls of the last handler
StructuralCalls == {i \in DOMAIN calls : calls[i].url \in StructuralUrls}

\* C21: when the structural call of an Update succeeded, the PATCH and the
\* label call of that Update are addressed to the record ID that call
\* returned, the new resource ID.
C21_AddressedToNewId ==
    (op = "update" /\ calls # <<>> /\ 1 \in StructuralCalls /\ calls[1].ok) =>
        \A i \in 2..Len(calls) :
            /\ calls[i].args = <<Itoa(calls[1].record_id)>>
            /\ calls[i].args = <<post[1].id>>

\* C22: an Update issues at most one structural call, and when the old and
\* the new project_id are equal it issues none and leaves the resource ID
\* and the location as the ResourceData it was given had them.
C22_NoChangeNoStructural ==
    op = "update" =>
        /\ Cardinality(StructuralCalls) <= 1
        /\ (pre[1].old["project_id"] = pre[1].new["project_id"] =>
               /\ StructuralCalls = {}
               /\ post[1].id = pre[1].id
               /\ id = pre[1].id
               /\ post[1].cur["location"] = pre[1].cur["location"]
               /\ attrs["location"] = pre[1].cur["location"])

\* an Update of a project account that stays in its project and only patches
C22_Witness ==
    /\ op = "update"
    /\ pre[1].old["project_id"] = pre[1].new["project_id"]
    /\ pre[1].old["project_id"] # 0
    /\ PatchCalls # {}
    /\ err = NoError
    /\ id = pre[1].id

\* the place of a call in the order of Update: structural, PATCH, labels
CallRank(c) ==
    IF c.url \in StructuralUrls THEN 1
    ELSE IF c.op = "PATCH" THEN 2
    ELSE IF c.op = "PutAppLabelIDs" THEN 3
    ELSE 0

\* C23: the calls of an Update are a structural call, a PATCH and a label
\* update, each at most once and in that order, and every call but the last
\* succeeded.
C23_CallOrder ==
    op = "update" =>
        /\ \A i \in DOMAIN calls : CallRank(calls[i]) \in 1..3
        /\ \A i, j \in DOMAIN calls : i < j => CallRank(calls[i]) < CallRank(calls[j])
        /\ \A i \in DOMAIN calls : i < Len(calls) => calls[i].ok

\* an Update that issued all three calls
C23_Witness ==
    /\ op = "update"
    /\ Len(calls) = 3
    /\ CallRank(calls[1]) = 1
    /\ calls[2].op = "PATCH"
    /\ calls[3].op = "PutAppLabelIDs"

\* the structural call of the last Update was issued and failed
StructuralFailed ==
    /\ op = "update"
    /\ calls # <<>>
    /\ 1 \in StructuralCalls
    /\ ~calls[1].ok

FetchFailed ==
    /\ op = "read"
    /\ calls # <<>>
    /\ calls[1].op = "GET"
    /\ ~calls[1].ok

\* C25: when the account fetch of a Read fails, the Read returns an error,
\* issues no further call and writes nothing: the ResourceData is as it was
\* given, and the ID and every attribute of the state (location and labels
\* among them) are as before, also when the ID carries an import marker.
C25_FailedFetchWritesNothing ==
    FetchFailed =>
        /\ err = "Unable to read account"
        /\ Len(calls) = 1
        /\ post[1] = pre[1]
        /\ id = pre[1].id
        /\ attrs = pre[1].cur

\* the Read of an import with a marked ID whose fetch failed
C25_Witness ==
    /\ FetchFailed
    /\ MarkerOf(pre[1].id) # <<>>
    /\ attrs = ImportedAttrs
    /\ id = pre[1].id

\* the list that has each ID of items once, in increasing order
RECURSIVE Ascending(_)
Ascending(S) ==
    IF S = {} THEN <<>>
    ELSE LET m == CHOOSE x \in S : \A y \in S : x <= y
         IN  <<[id |-> m]>> \o Ascending(S \ {m})

\* the ResourceData of a change of owner_users from old to new
OwnerChange(old, new) ==
    [id |-> Itoa(1), old |-> [owner_users |-> old],
     new |-> [owner_users |-> new], cur |-> [owner_users |-> new]]

\* C26: whatever the order of the old and of the new list, however often they
\* repeat an ID and in whatever order the maps are ranged over, the IDs in add
\* and in remove are those the differ gives for the lists that hold the same
\* IDs once each in increasing order, so that two changes with the same
\* members give the same IDs; no ID is twice in add or twice in remove.
C26_MembershipOnly ==
    assoc # <<>> =>
        /\ \A i, j \in DOMAIN assoc[1].arrUserAdd :
               assoc[1].arrUserAdd[i] = assoc[1].arrUserAdd[j] => i = j
        /\ \A i, j \in DOMAIN assoc[1].arrUserRemove :
               assoc[1].arrUserRemove[i] = assoc[1].arrUserRemove[j] => i = j
        /\ \A r \in AssociationChanged(
                        OwnerChange(Ascending(IdSet(field[1])),
                                    Ascending(IdSet(field[2]))), "owner_users") :
               /\ Elems(r.arrUserAdd) = Elems(assoc[1].arrUserAdd)
               /\ Elems(r.arrUserRemove) = Elems(assoc[1].arrUserRemove)

\* a new list that repeats an ID the old list does not have: added once
C26_Witness ==
    /\ assoc # <<>>
    /\ Len(field[2]) = 2
    /\ field[2][1] = field[2][2]
    /\ IdSet(field[2]) # {}
    /\ IdSet(field[2]) \cap IdSet(field[1]) = {}
    /\ Len(assoc[1].arrUserAdd) = 1
    /\ Len(field[1]) = 2
    /\ Len(assoc[1].arrUserRemove) = 2

\* C27: the planned location an Update is given is project when the planned
\* project_id is not zero and cache when it is zero, whatever location the
\* prior state recorded.
C27_PlannedLocation ==
    op = "update" =>
        /\ (pre[1].new["project_id"] # 0 => pre[1].new["location"] = ProjectLocation)
        /\ (pre[1].new["project_id"] = 0 => pre[1].new["location"] = CacheLocation)
        /\ GetChange(pre[1], "location")[2] \in {CacheLocation, ProjectLocation}

\* a plan that takes a project account out of its project: recorded
\* location project, planned location cache
C27_Witness ==
    /\ op = "update"
    /\ pre[1].old["location"] = ProjectLocation
    /\ pre[1].old["project_id"] # 0
    /\ pre[1].new["project_id"] = 0
    /\ pre[1].new["location"] = CacheLocation

\* the label reads of the last Read
LabelReads == {i \in DOMAIN calls : calls[i].op = "ReadResourceLabels"}

\* C28: a Read issues a label read if and only if the location it resolved is
\* project and the account fetch before it succeeded; the label read is the
\* call after the fetch, for the ID the Read was given, issued with the
\* fetched record already written; the labels are written if and only if the
\* label read succeeded, and are then the ones it returned.  A Read that
\* resolves cache issues no label read and leaves the labels as they were.
C28_ReadLabels ==
    op = "read" =>
        /\ (LabelReads # {} <=> (ResolvedLocation = ProjectLocation /\ calls[1].ok))
        /\ LabelReads \subseteq {2}
        /\ (LabelReads # {} =>
               /\ calls[1].op = "GET"
               /\ calls[2].args = <<pre[1].id>>
               /\ \A k \in DOMAIN calls[1].resp : post[1].cur[k] = calls[1].resp[k]
               /\ (calls[2].ok =>
                      /\ post[1].cur["labels"] = calls[2].resp
                      /\ attrs["labels"] = calls[2].resp
                      /\ err = NoError)
               /\ (~calls[2].ok =>
                      /\ err = "Unable to read account labels"
                      /\ post[1].cur["labels"] = pre[1].cur["labels"]))
        /\ (LabelReads = {} => post[1].cur["labels"] = pre[1].cur["labels"])
        /\ (ResolvedLocation = CacheLocation =>
               /\ LabelReads = {}
               /\ attrs["labels"] = pre[1].cur["labels"])

\* a Read of a project account that found the labels changed in the backend
C28_Witness ==
    /\ op = "read"
    /\ ResolvedLocation = ProjectLocation
    /\ LabelReads = {2}
    /\ calls[2].ok
    /\ pre[1].cur["labels"] # calls[2].resp
    /\ attrs["labels"] = calls[2].resp

\* a Read of a cached account: the fetch alone
C28_WitnessCache ==
    /\ op = "read"
    /\ ResolvedLocation = CacheLocation
    /\ calls[1].ok
    /\ Len(calls) = 1
    /\ err = NoError

====
